---- MODULE Spec2Model ----
(***************************************************************************)
(* A model of the annotation backend (src/main.py): the credential store,  *)
(* the session registry, the per-user document / annotation / label stores *)
(* kept as JSON files below DATA_DIR, the directories get_user_paths       *)
(* makes, the files written to the working directory, and the request      *)
(* handlers that read and write them.                                      *)
(*                                                                         *)
(* Strings the code takes apart or joins into paths (usernames, doc_ids,   *)
(* file names, uploaded text) are sequences of one-character strings.      *)
(* Strings the code only compares or stores (label, annotation text,       *)
(* password) are atoms.  A path is named by what the file system resolves  *)
(* it to: whether it is absolute and its components.                       *)
(***************************************************************************)
EXTENDS Integers, Sequences, FiniteSets, TLC

VARIABLES
    users,      \* the file data/users.json, by path
    sessions,   \* the process-wide dict token -> username
    uuid,       \* how many uuid4() values have been drawn
    dirs,       \* the directories os.makedirs has made, by path
    docs,       \* the files <user dir>/documents.json, by path
    anns,       \* the files <user dir>/annotations.json, by path
    labels,     \* the files <user dir>/labels.json, by path
    exports,    \* the files of the working directory (exports, temp.zip)
    threads     \* per worker thread: the request it runs (position in the
                \* handler, locals) or the response it sent last

vars == <<users, sessions, uuid, dirs, docs, anns, labels, exports, threads>>

----------------------------------------------------------------------------
(* Bounds of the model *)

MaxAnns == 2         \* longest annotation list a save may build
MaxUuid == 4         \* uuid4() draws (salts and tokens)

\* The code only compares offsets: four values, one of them negative, give
\* every order the four end points of two spans can have.
Offsets == {-1, 0, 1, 2}
Indexes == -1..MaxAnns

----------------------------------------------------------------------------
(* Characters and strings *)

\* what str.strip() and str.split() take for whitespace: space, the
\* controls 0x09-0x0d and 0x1c-0x1f, U+0085, U+00A0 and U+1680.  Python
\* takes U+2000-U+200A, U+2028, U+2029, U+202F, U+205F and U+3000 as
\* well, which a string of this module cannot hold.
WS == {" ", "\t", "\n", "\f", "\r",
       "", "", "", "", "", "", " ", " "}

\* the k-th smallest of a set of positions
Nth(S, k) == CHOOSE i \in S : Cardinality({j \in S : j < i}) = k - 1

\* the positions of s that hold no whitespace
Inked(s) == {i \in 1..Len(s) : s[i] \notin WS}

\* s without its leading whitespace
LStrip(s) ==
    IF Inked(s) = {} THEN <<>> ELSE SubSeq(s, Nth(Inked(s), 1), Len(s))

\* s without its trailing whitespace
RStrip(s) ==
    IF Inked(s) = {} THEN <<>>
    ELSE SubSeq(s, 1, Nth(Inked(s), Cardinality(Inked(s))))

\* str.strip()
Strip(s) == RStrip(LStrip(s))

----------------------------------------------------------------------------
(* Paths *)

DATA_DIR == <<"d", "a", "t", "a">>

USERS_FILE == DATA_DIR \o <<"/", "u", "s", "e", "r", "s", ".", "j", "s", "o", "n">>

DocsName == <<"d", "o", "c", "u", "m", "e", "n", "t", "s", ".", "j", "s", "o", "n">>
AnnsName ==
    <<"a", "n", "n", "o", "t", "a", "t", "i", "o", "n", "s", ".", "j", "s", "o", "n">>
LabelsName == <<"l", "a", "b", "e", "l", "s", ".", "j", "s", "o", "n">>

\* os.path.join(a, b) for two parts
PathJoin(a, b) ==
    IF b # <<>> /\ Head(b) = "/" THEN b
    ELSE IF a = <<>> \/ a[Len(a)] = "/" THEN a \o b
    ELSE a \o <<"/">> \o b

\* the components of a path, split at "/"
SplitPath(p) ==
    LET cuts == {i \in 1..Len(p) : p[i] = "/"}
        n == Cardinality(cuts)
        Cut(k) == IF k = 0 THEN 0 ELSE IF k > n THEN Len(p) + 1 ELSE Nth(cuts, k)
    IN  [k \in 1..(n + 1) |-> SubSeq(p, Cut(k - 1) + 1, Cut(k) - 1)]

\* the components left once "", "." and ".." are resolved
RECURSIVE ResolveComps(_, _, _)
ResolveComps(cs, acc, abs) ==
    IF cs = <<>> THEN acc
    ELSE LET c == Head(cs) IN
         IF c = <<>> \/ c = <<".">> THEN ResolveComps(Tail(cs), acc, abs)
         ELSE IF c = <<".", ".">> THEN
              IF acc # <<>> /\ acc[Len(acc)] # <<".", ".">>
              THEN ResolveComps(Tail(cs), SubSeq(acc, 1, Len(acc) - 1), abs)
              ELSE IF abs THEN ResolveComps(Tail(cs), acc, abs)
              ELSE ResolveComps(Tail(cs), Append(acc, c), abs)
         ELSE ResolveComps(Tail(cs), Append(acc, c), abs)

\* the file or directory a path string names
ResolvePath(p) ==
    LET abs == p # <<>> /\ Head(p) = "/" IN
    [abs |-> abs, comps |-> ResolveComps(SplitPath(p), <<>>, abs)]

\* a regular file is at path p: a store file, an export, temp.zip
IsFile(p) ==
    \/ p \in DOMAIN users
    \/ p \in DOMAIN docs
    \/ p \in DOMAIN anns
    \/ p \in DOMAIN labels
    \/ p \in DOMAIN exports

\* os.makedirs(path, exist_ok=True), component by component from the
\* directory at: each missing directory is made; a regular file in the way
\* raises FileExistsError or NotADirectoryError, and the directories made
\* before it stay.  made holds every directory the walk went through.
RECURSIVE MakeComps(_, _, _)
MakeComps(cs, at, made) ==
    IF cs = <<>> THEN [error |-> FALSE, made |-> made]
    ELSE LET c == Head(cs)
             up == ResolveComps(<<c>>, at.comps, at.abs)
             p == [abs |-> at.abs, comps |-> up]
         IN  IF c = <<>> \/ c = <<".">> \/ c = <<".", ".">>
             THEN MakeComps(Tail(cs), p, made)
             ELSE IF IsFile(p) THEN [error |-> TRUE, made |-> made]
             ELSE MakeComps(Tail(cs), p, made \cup {p})

makedirs(path) ==
    LET abs == path # <<>> /\ Head(path) = "/"
    IN  MakeComps(SplitPath(path), [abs |-> abs, comps |-> <<>>], {})

\* get_user_paths: whether os.makedirs raised, the directories it made, and
\* the files of the three stores of a username
get_user_paths(username) ==
    LET base == PathJoin(DATA_DIR, username)
        made == makedirs(base)
    IN  [error |-> made.error, made |-> made.made,
         docs |-> ResolvePath(PathJoin(base, DocsName)),
         anns |-> ResolvePath(PathJoin(base, AnnsName)),
         labels |-> ResolvePath(PathJoin(base, LabelsName))]

----------------------------------------------------------------------------
(* Files and JSON mappings *)

EmptyMap == <<>>

\* a file closed after a complete write of content
Whole(content) == [whole |-> TRUE, content |-> content]

\* a file whose text json.load does not parse: between open(path, "w") and
\* the end of the write of content it holds no text or the beginning of the
\* text; after two writes that overlapped it may hold the text of content
\* and, behind it, the end of a longer text
Partial(content) == [whole |-> FALSE, content |-> content]

\* mutant of load_json: the text is parsed as far as it goes
load_jsonAsIs(store, path) ==
    IF path \in DOMAIN store THEN store[path].content ELSE EmptyMap

\* load_json: the mapping of a store file, {} when the file is missing and
\* {} when open or json.load raises
load_json(store, path) ==
    IF path \notin DOMAIN store THEN EmptyMap
    ELSE IF ~store[path].whole THEN EmptyMap
    ELSE store[path].content

\* the store with the file at path holding the beginning of the text of
\* data: open(path, "w"), line 49, makes the file or cuts it to length 0
Truncate(store, path, data) ==
    [p \in DOMAIN store \cup {path} |-> IF p = path THEN Partial(data) ELSE store[p]]

\* save_json, from open to close: the store with the file at path replaced
\* by data
save_json(store, path, data) ==
    [p \in DOMAIN store \cup {path} |-> IF p = path THEN Whole(data) ELSE store[p]]

\* what a store can be once a writer of data flushes and closes the file at
\* path: the text of data is written from position 0 of the file.  The file
\* is empty since this writer opened it, unless another writer has closed
\* it meanwhile: then the end of that text stays behind this one when it is
\* the longer of the two.  The lengths of texts are not kept, so that both
\* outcomes are taken for two different contents.
Flushed(store, path, data) ==
    IF path \in DOMAIN store /\ store[path].whole /\ store[path].content # data
    THEN {save_json(store, path, data), Truncate(store, path, data)}
    ELSE {save_json(store, path, data)}

\* d[k] = v on a dict
DictSet(d, k, v) == [x \in DOMAIN d \cup {k} |-> IF x = k THEN v ELSE d[x]]

\* d.pop(k), os.remove(k)
DictPop(d, k) == [x \in DOMAIN d \ {k} |-> d[x]]

\* d.get(k, [])
GetList(d, k) == IF k \in DOMAIN d THEN d[k] ELSE <<>>

hash_password(password, salt) == <<"sha256", salt, password>>

----------------------------------------------------------------------------
(* Authentication *)

NoHeader == [scheme |-> "none", token |-> 0]
Unauthorized == <<"401">>

\* mutant of get_current_user: the scheme of the header is not looked at
get_current_userAnyScheme(h) ==
    IF h = NoHeader THEN Unauthorized
    ELSE IF h.token \notin DOMAIN sessions THEN Unauthorized
    ELSE sessions[h.token]

get_current_user(h) ==
    IF h = NoHeader \/ h.scheme # "Bearer " THEN Unauthorized
    ELSE IF h.token \notin DOMAIN sessions THEN Unauthorized
    ELSE sessions[h.token]

Bearer(t) == [scheme |-> "Bearer ", token |-> t]

----------------------------------------------------------------------------
(* Requests in flight.  A worker is idle; or between the load and the save  *)
(* of a handler (pc = "loaded"); or between the open and the end of the    *)
(* write of save_json (pc = "writing"); or suspended at an await (pc =     *)
(* "awaiting"); or has returned a FileResponse that is not sent yet (pc =  *)
(* "sending"); or holds the response it sent (pc = "done").  Handlers      *)
(* declared async def run on the event loop, one at a time between awaits; *)
(* handlers declared def run on pool threads.                              *)

Idle == [pc |-> "idle"]

\* what a handler has of its arguments when the Depends() raised
NoArgs == [doc_id |-> <<"none">>]

Done(op, h, args, status, body) ==
    [pc |-> "done", op |-> op, auth |-> h, args |-> args,
     status |-> status, body |-> body]

\* an exception no handler catches
ServerError(op, h, args) == Done(op, h, args, 500, "Internal Server Error")

\* path is the file the handler goes on to write, loaded what it read and
\* data what it will write
Loaded(op, kind, h, args, user, path, loaded, data) ==
    [pc |-> "loaded", op |-> op, kind |-> kind, auth |-> h, args |-> args,
     user |-> user, path |-> path, loaded |-> loaded, data |-> data]

\* before is what load_json returned for the file just before it was opened
Writing(r, before) ==
    [pc |-> "writing", op |-> r.op, kind |-> r.kind, auth |-> r.auth,
     args |-> r.args, user |-> r.user, path |-> r.path, loaded |-> r.loaded,
     data |-> r.data, before |-> before]

Sending(r) ==
    [pc |-> "sending", op |-> r.op, kind |-> r.kind, auth |-> r.auth,
     args |-> r.args, user |-> r.user, path |-> r.path, loaded |-> r.loaded,
     data |-> r.data]

Free(t) == threads[t].pc = "idle"

\* the event loop is not inside another coroutine
LoopFree(t) ==
    \A o \in DOMAIN threads \ {t} :
        ~(threads[o].pc \in {"loaded", "writing"} /\ threads[o].kind = "loop")

Reply(t, r) == threads' = [threads EXCEPT ![t] = r]

\* Depends(get_current_user) raised 401, or get_user_paths raised and the
\* directories it made before stay
Refused(t, op, h, args, user, paths) ==
    IF user = Unauthorized
    THEN /\ Reply(t, Done(op, h, NoArgs, 401, "Unauthorized"))
         /\ UNCHANGED dirs
    ELSE /\ Reply(t, ServerError(op, h, args))
         /\ dirs' = dirs \cup paths.made

\* the body of the 200 response of a handler that saved
Saved(op, args) ==
    CASE op = "register" -> "registered"
      [] op = "upload" -> args.doc_id
      [] op = "upload-zip" -> "uploaded-zip"
      [] op = "upload-folder" -> "folder-uploaded"
      [] op = "save" -> "saved"
      [] op = "delete" -> "annotation deleted"
      [] op = "label" -> "label saved"
      [] op = "unlabel" -> "label deleted"

\* the response is sent and the worker takes the next request
Release(t) ==
    /\ threads[t].pc = "done"
    /\ threads' = [threads EXCEPT ![t] = Idle]
    /\ UNCHANGED <<users, sessions, uuid, dirs, docs, anns, labels, exports>>

----------------------------------------------------------------------------
(* save_json(path, data) step by step: open(path, "w") cuts the file in    *)
(* place or raises IsADirectoryError, json.dump fills it and the file is   *)
(* closed.  Between the two steps other threads run.                       *)

Opens(t, ops) == threads[t].pc = "loaded" /\ threads[t].op \in ops

Closes(t, ops) == threads[t].pc = "writing" /\ threads[t].op \in ops

Raised(t) == Reply(t, ServerError(threads[t].op, threads[t].auth, threads[t].args))

Returned(t) ==
    Reply(t, Done(threads[t].op, threads[t].auth, threads[t].args, 200,
                  Saved(threads[t].op, threads[t].args)))

\* line 108 of register_user
OpenUsers(t) ==
    /\ Opens(t, {"register"})
    /\ IF threads[t].path \in dirs
       THEN Raised(t) /\ UNCHANGED users
       ELSE /\ users' = Truncate(users, threads[t].path, threads[t].data)
            /\ Reply(t, Writing(threads[t], load_json(users, threads[t].path)))
    /\ UNCHANGED <<sessions, uuid, dirs, docs, anns, labels, exports>>

CloseUsers(t) ==
    /\ Closes(t, {"register"})
    /\ users' \in Flushed(users, threads[t].path, threads[t].data)
    /\ Returned(t)
    /\ UNCHANGED <<sessions, uuid, dirs, docs, anns, labels, exports>>

\* lines 153, 181 and 207 of the upload handlers
OpenDocs(t) ==
    /\ Opens(t, {"upload", "upload-zip", "upload-folder"})
    /\ IF threads[t].path \in dirs
       THEN Raised(t) /\ UNCHANGED docs
       ELSE /\ docs' = Truncate(docs, threads[t].path, threads[t].data)
            /\ Reply(t, Writing(threads[t], load_json(docs, threads[t].path)))
    /\ UNCHANGED <<users, sessions, uuid, dirs, anns, labels, exports>>

\* lines 271 and 293 of save_annot and delete_annotation
OpenAnns(t) ==
    /\ Opens(t, {"save", "delete"})
    /\ IF threads[t].path \in dirs
       THEN Raised(t) /\ UNCHANGED anns
       ELSE /\ anns' = Truncate(anns, threads[t].path, threads[t].data)
            /\ Reply(t, Writing(threads[t], load_json(anns, threads[t].path)))
    /\ UNCHANGED <<users, sessions, uuid, dirs, docs, labels, exports>>

CloseAnns(t) ==
    /\ Closes(t, {"save", "delete"})
    /\ anns' \in Flushed(anns, threads[t].path, threads[t].data)
    /\ Returned(t)
    /\ UNCHANGED <<users, sessions, uuid, dirs, docs, labels, exports>>

\* lines 309 and 321 of save_label and delete_label
OpenLabels(t) ==
    /\ Opens(t, {"label", "unlabel"})
    /\ IF threads[t].path \in dirs
       THEN Raised(t) /\ UNCHANGED labels
       ELSE /\ labels' = Truncate(labels, threads[t].path, threads[t].data)
            /\ Reply(t, Writing(threads[t], load_json(labels, threads[t].path)))
    /\ UNCHANGED <<users, sessions, uuid, dirs, docs, anns, exports>>

CloseLabels(t) ==
    /\ Closes(t, {"label", "unlabel"})
    /\ labels' \in Flushed(labels, threads[t].path, threads[t].data)
    /\ Returned(t)
    /\ UNCHANGED <<users, sessions, uuid, dirs, docs, anns, exports>>

\* json.dump raises (the disk is full, the write is interrupted): the file
\* is closed as it is and the request is answered 500
FailWrite(t) ==
    /\ threads[t].pc = "writing"
    /\ Raised(t)
    /\ UNCHANGED <<users, sessions, uuid, dirs, docs, anns, labels, exports>>

----------------------------------------------------------------------------
(* Annotations *)

Annotation(s, e, txt, lab, rank) ==
    [start |-> s, end |-> e, text |-> txt, label |-> lab, rank |-> rank]

\* mutants of overlaps: only a start inside the candidate counts; touching
\* end points count
overlapsStartInside(a_start, a_end, b_start, b_end) ==
    b_start <= a_start /\ a_start < b_end

overlapsTouching(a_start, a_end, b_start, b_end) ==
    a_start <= b_end /\ b_start <= a_end

overlaps(a_start, a_end, b_start, b_end) == a_start < b_end /\ b_start < a_end

\* [a for a in current if not overlaps(a["start"], a["end"], start, end)]
Filtered(current, start, end) ==
    SelectSeq(current, LAMBDA a : ~overlaps(a.start, a.end, start, end))

\* where list.sort(key=start), which is stable, puts x in a sorted list
RECURSIVE InsertByStart(_, _)
InsertByStart(sorted, x) ==
    IF sorted = <<>> THEN <<x>>
    ELSE IF sorted[Len(sorted)].start <= x.start THEN Append(sorted, x)
    ELSE Append(InsertByStart(SubSeq(sorted, 1, Len(sorted) - 1), x),
                sorted[Len(sorted)])

RECURSIVE SortByStart(_)
SortByStart(l) ==
    IF l = <<>> THEN <<>>
    ELSE InsertByStart(SortByStart(SubSeq(l, 1, Len(l) - 1)), l[Len(l)])

\* mutant of Reconcile: the list is not sorted again
ReconcileUnsorted(current, cand) ==
    Append(Filtered(current, cand.start, cand.end), cand)

\* the list save_annot stores for a document
Reconcile(current, cand) ==
    SortByStart(Append(Filtered(current, cand.start, cand.end), cand))

\* list.pop(index) for 0 <= index < len(list)
PopAt(l, index) == SubSeq(l, 1, index) \o SubSeq(l, index + 2, Len(l))

----------------------------------------------------------------------------
(* POST /register and POST /login *)

AuthRequest(name, pw) == [username |-> name, password |-> pw]

\* lines 94-107: up to save_json
BeginRegister(t, name, pw) ==
    LET username == Strip(name)
        path == ResolvePath(USERS_FILE)
        loaded == load_json(users, path)
        salt == uuid + 1
        record == [salt |-> salt, password |-> hash_password(pw, salt)]
    IN  /\ Free(t)
        /\ IF username = <<>> \/ pw = ""
           THEN /\ Reply(t, Done("register", NoHeader, AuthRequest(name, pw), 400,
                                 "Username and password required"))
                /\ UNCHANGED uuid
           ELSE IF username \in DOMAIN loaded
           THEN /\ Reply(t, Done("register", NoHeader, AuthRequest(name, pw), 400,
                                 "Username already exists"))
                /\ UNCHANGED uuid
           ELSE /\ uuid < MaxUuid
                /\ uuid' = uuid + 1
                /\ Reply(t, Loaded("register", "pool", NoHeader,
                                   AuthRequest(name, pw), username, path, loaded,
                                   DictSet(loaded, username, record)))
        /\ UNCHANGED <<users, sessions, dirs, docs, anns, labels, exports>>

login_user(t, name, pw) ==
    LET username == Strip(name)
        loaded == load_json(users, ResolvePath(USERS_FILE))
        token == uuid + 1
        ok == /\ username \in DOMAIN loaded
              /\ hash_password(pw, loaded[username].salt) = loaded[username].password
    IN  /\ Free(t)
        /\ IF ~ok
           THEN /\ Reply(t, Done("login", NoHeader, AuthRequest(name, pw), 401,
                                 "Invalid credentials"))
                /\ UNCHANGED <<sessions, uuid>>
           ELSE /\ uuid < MaxUuid
                /\ uuid' = uuid + 1
                /\ sessions' = DictSet(sessions, token, username)
                /\ Reply(t, Done("login", NoHeader, AuthRequest(name, pw), 200,
                                 [token |-> token, username |-> username]))
        /\ UNCHANGED <<users, dirs, docs, anns, labels, exports>>

----------------------------------------------------------------------------
(* POST /save-annotation *)

SaveArgs(d, s, e, txt, lab, rank) ==
    [doc_id |-> d, start |-> s, end |-> e, text |-> txt, label |-> lab,
     rank |-> rank]

\* lines 252-269: the mapping save_annot builds from the one it loaded
SaveAnnotData(loaded, a) ==
    LET current == GetList(loaded, a.doc_id)
        cand == Annotation(a.start, a.end, a.text, a.label, a.rank)
    IN  DictSet(loaded, a.doc_id, Reconcile(current, cand))

\* lines 250-269: up to save_json
BeginSaveAnnot(t, h, a) ==
    LET user == get_current_user(h)
        paths == get_user_paths(user)
        loaded == load_json(anns, paths.anns)
        data == SaveAnnotData(loaded, a)
    IN  /\ Free(t) /\ LoopFree(t)
        /\ IF user = Unauthorized \/ paths.error
           THEN Refused(t, "save", h, a, user, paths)
           ELSE /\ Len(data[a.doc_id]) <= MaxAnns
                /\ dirs' = dirs \cup paths.made
                /\ Reply(t, Loaded("save", "loop", h, a, user, paths.anns,
                                   loaded, data))
        /\ UNCHANGED <<users, sessions, uuid, docs, anns, labels, exports>>

----------------------------------------------------------------------------
(* GET and DELETE /annotations/{doc_id} *)

get_annots(t, h, d) ==
    LET user == get_current_user(h)
        paths == get_user_paths(user)
        data == load_json(anns, paths.anns)
        a == [doc_id |-> d]
    IN  /\ Free(t)
        /\ IF user = Unauthorized \/ paths.error
           THEN Refused(t, "list", h, a, user, paths)
           ELSE /\ dirs' = dirs \cup paths.made
                /\ Reply(t, Done("list", h, a, 200, GetList(data, d)))
        /\ UNCHANGED <<users, sessions, uuid, docs, anns, labels, exports>>

DeleteArgs(d, index) == [doc_id |-> d, index |-> index]

\* mutant of DeleteMissing: index = len passes the test
DeleteMissingOffByOne(loaded, a) ==
    \/ a.doc_id \notin DOMAIN loaded
    \/ a.index < 0
    \/ a.index > Len(loaded[a.doc_id])

\* line 289: the 404 test of delete_annotation
DeleteMissing(loaded, a) ==
    \/ a.doc_id \notin DOMAIN loaded
    \/ a.index < 0
    \/ a.index >= Len(loaded[a.doc_id])

DeleteData(loaded, a) == DictSet(loaded, a.doc_id, PopAt(loaded[a.doc_id], a.index))

\* lines 287-292: up to save_json
BeginDeleteAnnotation(t, h, a) ==
    LET user == get_current_user(h)
        paths == get_user_paths(user)
        loaded == load_json(anns, paths.anns)
    IN  /\ Free(t)
        /\ IF user = Unauthorized \/ paths.error
           THEN Refused(t, "delete", h, a, user, paths)
           ELSE /\ dirs' = dirs \cup paths.made
                /\ IF DeleteMissing(loaded, a)
                   THEN Reply(t, Done("delete", h, a, 404, "annotation not found"))
                   ELSE Reply(t, Loaded("delete", "pool", h, a, user, paths.anns,
                                        loaded, DeleteData(loaded, a)))
        /\ UNCHANGED <<users, sessions, uuid, docs, anns, labels, exports>>

----------------------------------------------------------------------------
(* Documents: POST /upload and GET /document/{doc_id} *)

PreviewLen == 120

InvalidByte == "<ff>"

\* bytes.decode("utf-8", errors="ignore")
Decode(content) == SelectSeq(content, LAMBDA c : c # InvalidByte)

\* str.split(): the words between runs of whitespace
SplitWords(text) ==
    LET firsts == {i \in Inked(text) : i = 1 \/ text[i - 1] \in WS}
        lasts == {i \in Inked(text) : i = Len(text) \/ text[i + 1] \in WS}
    IN  [k \in 1..Cardinality(firsts) |->
            SubSeq(text, Nth(firsts, k), Nth(lasts, k))]

\* " ".join(words)
RECURSIVE JoinWords(_)
JoinWords(words) ==
    IF words = <<>> THEN <<>>
    ELSE IF Len(words) = 1 THEN words[1]
    ELSE LET half == Len(words) \div 2
         IN  JoinWords(SubSeq(words, 1, half)) \o <<" ">>
                 \o JoinWords(SubSeq(words, half + 1, Len(words)))

\* s[:n]
Take(s, n) == SubSeq(s, 1, IF Len(s) < n THEN Len(s) ELSE n)

make_preview(text) ==
    LET flat == [i \in 1..Len(text) |-> IF text[i] = "\n" THEN " " ELSE text[i]]
        norm == JoinWords(SplitWords(flat))
    IN  Take(norm, PreviewLen)
            \o (IF Len(norm) > PreviewLen THEN <<".", ".", ".">> ELSE <<>>)

Document(doc_id, text) ==
    [doc_id |-> doc_id, filename |-> doc_id, text |-> text,
     preview |-> make_preview(text)]

UploadArgs(filename, content) == [doc_id |-> filename, content |-> content]

\* lines 136-151: from the return of await file.read() up to save_json
BeginUpload(t, h, a) ==
    LET user == get_current_user(h)
        paths == get_user_paths(user)
        text == Decode(a.content)
        loaded == load_json(docs, paths.docs)
    IN  /\ Free(t) /\ LoopFree(t)
        /\ IF user = Unauthorized \/ paths.error
           THEN Refused(t, "upload", h, a, user, paths)
           ELSE /\ dirs' = dirs \cup paths.made
                /\ Reply(t, Loaded("upload", "loop", h, a, user, paths.docs, loaded,
                                   DictSet(loaded, a.doc_id, Document(a.doc_id, text))))
        /\ UNCHANGED <<users, sessions, uuid, docs, anns, labels, exports>>

get_doc(t, h, d) ==
    LET user == get_current_user(h)
        paths == get_user_paths(user)
        loaded == load_json(docs, paths.docs)
        a == [doc_id |-> d]
    IN  /\ Free(t)
        /\ IF user = Unauthorized \/ paths.error
           THEN Refused(t, "document", h, a, user, paths)
           ELSE /\ dirs' = dirs \cup paths.made
                /\ IF d \notin DOMAIN loaded
                   THEN Reply(t, Done("document", h, a, 404, "not found"))
                   ELSE Reply(t, Done("document", h, a, 200,
                                      [doc_id |-> d, text |-> loaded[d].text]))
        /\ UNCHANGED <<users, sessions, uuid, docs, anns, labels, exports>>

----------------------------------------------------------------------------
(* Documents: POST /upload-zip, POST /upload-folder and GET /documents.    *)
(* Both handlers load documents.json and then await the payload: the       *)
(* coroutine is suspended (pc = "awaiting") and the event loop runs other  *)
(* coroutines until the read returns.                                      *)

Awaiting(op, h, args, user, path, loaded, data, rest) ==
    [pc |-> "awaiting", op |-> op, kind |-> "loop", auth |-> h, args |-> args,
     user |-> user, path |-> path, loaded |-> loaded, data |-> data,
     rest |-> rest]

\* one entry of an archive, one file of a folder
Payload(name, content) == [name |-> name, content |-> content]

\* name.endswith(".txt")
EndsWithTxt(name) ==
    /\ Len(name) >= 4
    /\ SubSeq(name, Len(name) - 3, Len(name)) = <<".", "t", "x", "t">>

\* docs[name] = {...} of the three upload handlers
PutDocument(data, f) ==
    DictSet(data, f.name, Document(f.name, Decode(f.content)))

\* lines 170-179: the .txt entries of the archive, in namelist() order
RECURSIVE PutTxtEntries(_, _)
PutTxtEntries(data, entries) ==
    IF entries = <<>> THEN data
    ELSE PutTxtEntries(IF EndsWithTxt(Head(entries).name)
                       THEN PutDocument(data, Head(entries)) ELSE data,
                       Tail(entries))

ZipArgs(entries) == [doc_id |-> <<"zip">>, files |-> entries]

FolderArgs(files) == [doc_id |-> <<"folder">>, files |-> files]

\* path = "temp.zip", in the working directory
TempZip == ResolvePath(<<"t", "e", "m", "p", ".", "z", "i", "p">>)

\* lines 162-165: up to await file.read()
BeginUploadZip(t, h, a) ==
    LET user == get_current_user(h)
        paths == get_user_paths(user)
        loaded == load_json(docs, paths.docs)
    IN  /\ Free(t) /\ LoopFree(t)
        /\ IF user = Unauthorized \/ paths.error
           THEN Refused(t, "upload-zip", h, a, user, paths)
           ELSE /\ dirs' = dirs \cup paths.made
                /\ Reply(t, Awaiting("upload-zip", h, a, user, paths.docs, loaded,
                                     loaded, a.files))
        /\ UNCHANGED <<users, sessions, uuid, docs, anns, labels, exports>>

\* lines 165-179: the read returns, the archive is written to temp.zip and
\* unpacked into docs
ResumeUploadZip(t) ==
    /\ threads[t].pc = "awaiting" /\ threads[t].op = "upload-zip"
    /\ LoopFree(t)
    /\ IF TempZip \in dirs
       THEN Raised(t) /\ UNCHANGED exports
       ELSE /\ exports' = save_json(exports, TempZip, threads[t].rest)
            /\ Reply(t, Loaded("upload-zip", "loop", threads[t].auth,
                               threads[t].args, threads[t].user, threads[t].path,
                               threads[t].loaded,
                               PutTxtEntries(threads[t].data, threads[t].rest)))
    /\ UNCHANGED <<users, sessions, uuid, dirs, docs, anns, labels>>

\* lines 194-198: up to the first await f.read()
BeginUploadFolder(t, h, a) ==
    LET user == get_current_user(h)
        paths == get_user_paths(user)
        loaded == load_json(docs, paths.docs)
    IN  /\ Free(t) /\ LoopFree(t)
        /\ IF user = Unauthorized \/ paths.error
           THEN Refused(t, "upload-folder", h, a, user, paths)
           ELSE /\ dirs' = dirs \cup paths.made
                /\ Reply(t, Awaiting("upload-folder", h, a, user, paths.docs,
                                     loaded, loaded, a.files))
        /\ UNCHANGED <<users, sessions, uuid, docs, anns, labels, exports>>

\* lines 198-205: one read returns and its file is put into docs; after the
\* last file the coroutine goes on to save_json without another await
ResumeUploadFolder(t) ==
    LET data == PutDocument(threads[t].data, Head(threads[t].rest))
        rest == Tail(threads[t].rest)
    IN  /\ threads[t].pc = "awaiting" /\ threads[t].op = "upload-folder"
        /\ LoopFree(t)
        /\ IF rest = <<>>
           THEN Reply(t, Loaded("upload-folder", "loop", threads[t].auth,
                               threads[t].args, threads[t].user, threads[t].path,
                               threads[t].loaded, data))
           ELSE Reply(t, Awaiting("upload-folder", threads[t].auth,
                                  threads[t].args, threads[t].user,
                                  threads[t].path, threads[t].loaded, data, rest))
        /\ UNCHANGED <<users, sessions, uuid, dirs, docs, anns, labels, exports>>

\* the end of save_json in the three upload handlers; upload_zip then
\* removes temp.zip
CloseDocs(t) ==
    /\ Closes(t, {"upload", "upload-zip", "upload-folder"})
    /\ docs' \in Flushed(docs, threads[t].path, threads[t].data)
    /\ exports' = IF threads[t].op = "upload-zip" THEN DictPop(exports, TempZip)
                  ELSE exports
    /\ Returned(t)
    /\ UNCHANGED <<users, sessions, uuid, dirs, anns, labels>>

\* list(docs.values()), as the set of the documents
list_docs(t, h) ==
    LET user == get_current_user(h)
        paths == get_user_paths(user)
        loaded == load_json(docs, paths.docs)
        a == [doc_id |-> <<"documents">>]
    IN  /\ Free(t)
        /\ IF user = Unauthorized \/ paths.error
           THEN Refused(t, "documents", h, a, user, paths)
           ELSE /\ dirs' = dirs \cup paths.made
                /\ Reply(t, Done("documents", h, a, 200,
                                 {loaded[d] : d \in DOMAIN loaded}))
        /\ UNCHANGED <<users, sessions, uuid, docs, anns, labels, exports>>

----------------------------------------------------------------------------
(* Labels: POST /labels, DELETE /labels/{label_name}, GET /labels *)

LabelArgs(name, color) == [doc_id |-> <<"labels">>, name |-> name, color |-> color]

BeginSaveLabel(t, h, a) ==
    LET user == get_current_user(h)
        paths == get_user_paths(user)
        loaded == load_json(labels, paths.labels)
    IN  /\ Free(t) /\ LoopFree(t)
        /\ IF user = Unauthorized \/ paths.error
           THEN Refused(t, "label", h, a, user, paths)
           ELSE /\ dirs' = dirs \cup paths.made
                /\ Reply(t, Loaded("label", "loop", h, a, user, paths.labels,
                                   loaded, DictSet(loaded, a.name, a.color)))
        /\ UNCHANGED <<users, sessions, uuid, docs, anns, labels, exports>>

BeginDeleteLabel(t, h, a) ==
    LET user == get_current_user(h)
        paths == get_user_paths(user)
        loaded == load_json(labels, paths.labels)
    IN  /\ Free(t) /\ LoopFree(t)
        /\ IF user = Unauthorized \/ paths.error
           THEN Refused(t, "unlabel", h, a, user, paths)
           ELSE /\ dirs' = dirs \cup paths.made
                /\ IF a.name \notin DOMAIN loaded
                   THEN Reply(t, Done("unlabel", h, a, 404, "label not found"))
                   ELSE Reply(t, Loaded("unlabel", "loop", h, a, user,
                                        paths.labels, loaded,
                                        DictPop(loaded, a.name)))
        /\ UNCHANGED <<users, sessions, uuid, docs, anns, labels, exports>>

get_label(t, h) ==
    LET user == get_current_user(h)
        paths == get_user_paths(user)
        a == [doc_id |-> <<"labels">>]
    IN  /\ Free(t)
        /\ IF user = Unauthorized \/ paths.error
           THEN Refused(t, "labels", h, a, user, paths)
           ELSE /\ dirs' = dirs \cup paths.made
                /\ Reply(t, Done("labels", h, a, 200,
                                 load_json(labels, paths.labels)))
        /\ UNCHANGED <<users, sessions, uuid, docs, anns, labels, exports>>

----------------------------------------------------------------------------
(* Exports: GET /export-json/{doc_id} and GET /export-word/{doc_id}.  The   *)
(* handler writes a file named after the doc_id into the working directory *)
(* (open cuts it, the dump fills it) and returns a FileResponse, which     *)
(* reads that file when the response is sent.  The content of an export    *)
(* records, beside the rendering, the annotation file it was loaded from.  *)

\* f"{doc_id}_annotations.{ext}"
ExportName(doc_id, ext) ==
    doc_id \o <<"_", "a", "n", "n", "o", "t", "a", "t", "i", "o", "n", "s", ".">> \o ext

JsonExt == <<"j", "s", "o", "n">>
DocxExt == <<"d", "o", "c", "x">>

ExportFile(content, from) == [content |-> content, from |-> from]

\* export_word passes the file name where FileResponse takes status_code
NotAStatus == 0

\* one paragraph per annotation: [label] text (Rank=rank)
WordLines(l) == [i \in 1..Len(l) |-> <<"[", l[i].label, "] ", l[i].text,
                                        " (Rank=", l[i].rank, ")">>]

WordDocument(doc_id, l) == [heading |-> <<"Annotations for ", doc_id>>,
                            paragraphs |-> WordLines(l)]

\* lines 335-337: up to open(output, "w")
BeginExportJson(t, h, d) ==
    LET user == get_current_user(h)
        paths == get_user_paths(user)
        l == GetList(load_json(anns, paths.anns), d)
        output == ResolvePath(ExportName(d, JsonExt))
        a == [doc_id |-> d]
    IN  /\ Free(t)
        /\ IF user = Unauthorized \/ paths.error
           THEN Refused(t, "export-json", h, a, user, paths)
           ELSE /\ dirs' = dirs \cup paths.made
                /\ Reply(t, Loaded("export-json", "pool", h, a, user, output, l,
                                   ExportFile(l, paths.anns)))
        /\ UNCHANGED <<users, sessions, uuid, docs, anns, labels, exports>>

\* lines 348-363: up to document.save(filename)
BeginExportWord(t, h, d) ==
    LET user == get_current_user(h)
        paths == get_user_paths(user)
        loaded == load_json(docs, paths.docs)
        l == GetList(load_json(anns, paths.anns), d)
        filename == ResolvePath(ExportName(d, DocxExt))
        a == [doc_id |-> d]
    IN  /\ Free(t)
        /\ IF user = Unauthorized \/ paths.error
           THEN Refused(t, "export-word", h, a, user, paths)
           ELSE /\ dirs' = dirs \cup paths.made
                /\ IF d \notin DOMAIN loaded
                   THEN Reply(t, Done("export-word", h, a, 404, "Not found"))
                   ELSE Reply(t, Loaded("export-word", "pool", h, a, user,
                                        filename, l,
                                        ExportFile(WordDocument(d, l), paths.anns)))
        /\ UNCHANGED <<users, sessions, uuid, docs, anns, labels, exports>>

\* open(output, "w") of line 338, the open inside document.save of line 364
OpenExport(t) ==
    /\ Opens(t, {"export-json", "export-word"})
    /\ IF threads[t].path \in dirs
       THEN Raised(t) /\ UNCHANGED exports
       ELSE /\ exports' = Truncate(exports, threads[t].path, threads[t].data)
            /\ Reply(t, Writing(threads[t], load_json(exports, threads[t].path)))
    /\ UNCHANGED <<users, sessions, uuid, dirs, docs, anns, labels>>

\* the end of the dump; the handler returns the FileResponse
CloseExport(t) ==
    /\ Closes(t, {"export-json", "export-word"})
    /\ exports' \in Flushed(exports, threads[t].path, threads[t].data)
    /\ Reply(t, Sending(threads[t]))
    /\ UNCHANGED <<users, sessions, uuid, dirs, docs, anns, labels>>

\* FileResponse: the file is read when the response goes out
SendFile(t) ==
    /\ threads[t].pc = "sending"
    /\ Reply(t, Done(threads[t].op, threads[t].auth, threads[t].args,
                     IF threads[t].op = "export-json" THEN 200 ELSE NotAStatus,
                     exports[threads[t].path]))
    /\ UNCHANGED <<users, sessions, uuid, dirs, docs, anns, labels, exports>>

----------------------------------------------------------------------------
(* Inputs *)

UA == <<"a">>
UB == <<"b">>
Passwords == {"", "pw"}
D1 == <<"d", "1">>
D2 == <<"d", "2">>
DocIds == {D1, D2}
Texts == {"t"}
LabelNames == {"A", "B"}
NoRank == "null"
Ranks == {NoRank}

SaveInputs(D) ==
    {SaveArgs(d, s, e, txt, lab, rank) :
        d \in D, s \in Offsets, e \in Offsets, txt \in Texts,
        lab \in LabelNames, rank \in Ranks}

DeleteInputs(D) == {DeleteArgs(d, i) : d \in D, i \in Indexes}

----------------------------------------------------------------------------
(* The state after start-up: line 33 has made DATA_DIR; no store file      *)
(* exists, no session, no request                                          *)

InitOn(T) ==
    /\ users = EmptyMap
    /\ sessions = EmptyMap
    /\ uuid = 0
    /\ dirs = {ResolvePath(DATA_DIR)}
    /\ docs = EmptyMap
    /\ anns = EmptyMap
    /\ labels = EmptyMap
    /\ exports = EmptyMap
    /\ threads = [t \in T |-> Idle]

(* Spec: requests arrive one at a time and each runs to completion; the   *)
(* client logs in until it holds a token and then works with that session *)

OneWorker == {1}
SeqNames == {UA, <<" ", "a">>}
SeqHeaders == {NoHeader, Bearer(1), Bearer(2)}

Init == InitOn(OneWorker)

Next ==
    \E t \in OneWorker :
        \/ \E name \in SeqNames, pw \in Passwords : BeginRegister(t, name, pw)
        \/ OpenUsers(t)
        \/ CloseUsers(t)
        \/ /\ sessions = EmptyMap
           /\ \E name \in SeqNames, pw \in Passwords : login_user(t, name, pw)
        \/ \E h \in SeqHeaders, a \in SaveInputs({D1}) : BeginSaveAnnot(t, h, a)
        \/ \E h \in SeqHeaders, d \in {D1} : get_annots(t, h, d)
        \/ \E h \in SeqHeaders, a \in DeleteInputs({D1}) :
               BeginDeleteAnnotation(t, h, a)
        \/ OpenAnns(t)
        \/ CloseAnns(t)
        \/ Release(t)

Spec == Init /\ [][Next]_vars

----------------------------------------------------------------------------
(* Vocabulary of the properties *)

Workers == DOMAIN threads

\* the list stored for doc_id d in the store file at path
Stored(store, path, d) == GetList(load_json(store, path), d)

\* the credential store
Credentials == load_json(users, ResolvePath(USERS_FILE))

\* worker t ends the save_json of handler op in this step and returns
Persists(t, op) ==
    /\ threads[t].pc = "writing" /\ threads[t].op = op
    /\ threads'[t].pc = "done" /\ threads'[t].status = 200

Cand(a) == Annotation(a.start, a.end, a.text, a.label, a.rank)

\* the spans [a.start, a.end) and [b.start, b.end) have a position in common
SharePosition(a, b) ==
    \E p \in Offsets : a.start <= p /\ p < a.end /\ b.start <= p /\ p < b.end

\* the overlap test of the specification, on two annotations
Intersect(a, b) == a.start < b.end /\ b.start < a.end

\* l without its i-th element
Without(l, i) == [k \in 1..(Len(l) - 1) |-> IF k < i THEN l[k] ELSE l[k + 1]]

Occurrences(l, x) == Cardinality({i \in 1..Len(l) : l[i] = x})

----------------------------------------------------------------------------
(* C1. Overlap exclusion: in every stored annotation list, of every user    *)
(* and every doc_id, no two distinct entries a, b satisfy                   *)
(* a.start < b.end and b.start < a.end.                                     *)

OverlapExclusion ==
    \A path \in DOMAIN anns : \A d \in DOMAIN load_json(anns, path) :
        LET l == Stored(anns, path, d) IN
        \A i, j \in 1..Len(l) : i # j => ~Intersect(l[i], l[j])

\* a save has been answered and left two entries in the list it wrote
OverlapExclusionWitness ==
    \E t \in Workers :
        /\ threads[t].pc = "done" /\ threads[t].op = "save"
        /\ threads[t].status = 200
        /\ \E path \in DOMAIN anns :
              Len(Stored(anns, path, threads[t].args.doc_id)) = 2

(* C2. Sort invariant: every stored annotation list is non-decreasing in    *)
(* start.                                                                   *)

SortInvariant ==
    \A path \in DOMAIN anns : \A d \in DOMAIN load_json(anns, path) :
        LET l == Stored(anns, path, d) IN
        \A i \in 1..(Len(l) - 1) : l[i].start <= l[i + 1].start

\* a save has put its candidate in front of an entry saved earlier
SortInvariantWitness ==
    \E t \in Workers :
        /\ threads[t].pc = "done" /\ threads[t].op = "save"
        /\ threads[t].status = 200
        /\ \E path \in DOMAIN anns :
              LET l == Stored(anns, path, threads[t].args.doc_id) IN
              /\ Len(l) = 2
              /\ l[1] = Cand(threads[t].args)
              /\ l[1].start < l[2].start

(* C3. Overwrite semantics: the list a save stores is the prior list with   *)
(* every entry that overlaps the candidate taken out, the others unchanged  *)
(* and in their prior order, and the candidate put in once.  The prior list *)
(* is the one the file held when the save opened it.                        *)

OverwriteStep(t) ==
    LET a == threads[t].args
        c == Cand(a)
        prior == GetList(threads[t].before, a.doc_id)
        after == Stored(anns', threads[t].path, a.doc_id)
        survivors == SelectSeq(prior, LAMBDA x : ~Intersect(x, c))
    IN  \E i \in 1..Len(after) :
            after[i] = c /\ Without(after, i) = survivors

OverwriteSemantics == [][\A t \in Workers : Persists(t, "save") => OverwriteStep(t)]_vars

\* a save is about to replace a list of two by its candidate and one of them
OverwriteSemanticsWitness ==
    \E t \in Workers :
        /\ threads[t].pc = "writing" /\ threads[t].op = "save"
        /\ LET d == threads[t].args.doc_id IN
           /\ Len(GetList(threads[t].before, d)) = 2
           /\ Len(threads[t].data[d]) = 2
           /\ \E x \in {threads[t].before[d][1], threads[t].before[d][2]} :
                 Intersect(x, Cand(threads[t].args))

(* C4. Idempotent re-save: saving a candidate that save accepts a second    *)
(* time in a row stores the list the first save stored, and that list holds *)
(* the candidate exactly once.                                              *)

IdempotentResave ==
    \A t \in Workers :
        (threads[t].pc = "loaded" /\ threads[t].op = "save") =>
            LET a == threads[t].args
                once == threads[t].data
                twice == SaveAnnotData(once, a)
            IN  /\ twice[a.doc_id] = once[a.doc_id]
                /\ Occurrences(once[a.doc_id], Cand(a)) = 1

(* C5. Span validation: a save whose span has start >= end, or a negative   *)
(* offset, is answered 400 and no store changes.                            *)

BadSpan(a) == a.start >= a.end \/ a.start < 0 \/ a.end < 0

SpanValidation ==
    \A t \in Workers :
        (/\ threads[t].pc \in {"loaded", "writing", "done"}
         /\ threads[t].op = "save"
         /\ threads[t].args # NoArgs
         /\ BadSpan(threads[t].args))
        => (threads[t].pc = "done" /\ threads[t].status = 400)

(* C6. Touching spans do not conflict: a save removes an entry of the prior *)
(* list only when that entry and the candidate share a character position;  *)
(* so [a,b) and [b,c) saved in either order are both present.               *)

TouchingStep(t) ==
    LET a == threads[t].args
        c == Cand(a)
        prior == GetList(threads[t].before, a.doc_id)
        after == Stored(anns', threads[t].path, a.doc_id)
    IN  /\ Occurrences(after, c) >= 1
        /\ \A i \in 1..Len(prior) :
              ~SharePosition(prior[i], c) => Occurrences(after, prior[i]) >= 1

TouchingSpans == [][\A t \in Workers : Persists(t, "save") => TouchingStep(t)]_vars

(* C7. Delete bounds: a delete of an unseen doc_id, or of an index outside  *)
(* [0, n) of a list of length n, is answered 404 and leaves the annotation  *)
(* store as it was; any other delete removes the entry at that index and    *)
(* nothing else, the order of the rest kept.                                *)

OutOfBounds(store, path, a) ==
    \/ a.doc_id \notin DOMAIN load_json(store, path)
    \/ a.index < 0
    \/ a.index >= Len(Stored(store, path, a.doc_id))

DeleteStep(t) ==
    \* the request is taken: 404 exactly when out of bounds
    /\ (/\ threads[t].pc = "idle"
        /\ threads'[t].pc \in {"loaded", "done"}
        /\ threads'[t].op = "delete"
        /\ threads'[t].args # NoArgs)
       => LET a == threads'[t].args
              path == get_user_paths(get_current_user(threads'[t].auth)).anns
          IN  /\ anns' = anns
              /\ OutOfBounds(anns, path, a)
                    <=> (threads'[t].pc = "done" /\ threads'[t].status = 404)
              /\ ~OutOfBounds(anns, path, a) <=> threads'[t].pc = "loaded"
    \* the delete is persisted: that element goes and only that one
    /\ Persists(t, "delete")
       => LET a == threads[t].args
              prior == GetList(threads[t].before, a.doc_id)
              after == Stored(anns', threads[t].path, a.doc_id)
          IN  /\ 0 <= a.index /\ a.index < Len(prior)
              /\ after = Without(prior, a.index + 1)
              /\ a.doc_id \in DOMAIN load_json(anns', threads[t].path)
              /\ \A d \in DOMAIN threads[t].before \ {a.doc_id} :
                    Stored(anns', threads[t].path, d) = threads[t].before[d]

DeleteBounds == [][\A t \in Workers : DeleteStep(t)]_vars

\* the first of two entries has been deleted and the other is what is left
DeleteBoundsWitness ==
    \E t \in Workers :
        /\ threads[t].pc = "done" /\ threads[t].op = "delete"
        /\ threads[t].status = 200
        /\ threads[t].args.index = 0
        /\ \E path \in DOMAIN anns :
              Len(Stored(anns, path, threads[t].args.doc_id)) = 1

----------------------------------------------------------------------------
(* SpecConc: two requests of one user in flight.  save_annot is a coroutine *)
(* without an await in its body; delete_annotation runs on a pool thread,  *)
(* which the interpreter may switch to between the load and the save of    *)
(* any other handler, and between the open and the dump of a save_json.    *)

ConcWorkers == {1, 2}
ConcHeaders == {Bearer(k) : k \in 1..MaxUuid}
ConcSpans == {<<0, 1>>, <<1, 2>>, <<0, 2>>}
ConcSaves == {SaveArgs(D1, sp[1], sp[2], "t", "A", NoRank) : sp \in ConcSpans}

InitConc == InitOn(ConcWorkers)

NextConc ==
    \E t \in ConcWorkers :
        \/ BeginRegister(t, UA, "pw")
        \/ OpenUsers(t)
        \/ CloseUsers(t)
        \/ login_user(t, UA, "pw")
        \/ \E h \in ConcHeaders, a \in ConcSaves : BeginSaveAnnot(t, h, a)
        \/ \E h \in ConcHeaders, a \in DeleteInputs({D1}) :
               BeginDeleteAnnotation(t, h, a)
        \/ OpenAnns(t)
        \/ CloseAnns(t)
        \/ Release(t)

SpecConc == InitConc /\ [][NextConc]_vars

(* C8. Serialized annotation writes: when a write of a user's document     *)
(* persists, what it stores is that write applied to the list stored when  *)
(* it opened the file (the writes take effect in some serial order), never *)
(* a result computed from a list loaded before another write persisted.    *)

SerialSave(t) == OverwriteStep(t)

SerialDelete(t) ==
    LET a == threads[t].args
        prior == GetList(threads[t].before, a.doc_id)
        after == Stored(anns', threads[t].path, a.doc_id)
    IN  /\ a.index < Len(prior)
        /\ after = Without(prior, a.index + 1)

SerializedWrites ==
    [][\A t \in Workers :
          /\ Persists(t, "save") => SerialSave(t)
          /\ Persists(t, "delete") => SerialDelete(t)]_vars

----------------------------------------------------------------------------
(* SpecNs: several registered users, one request at a time, on documents,  *)
(* annotations and labels.  The directory of the username                  *)
(* a/annotations.json is where the annotation file of a goes.              *)

UASlash == <<"a", "/">>
UAFile == <<"a", "/">> \o AnnsName
NsNames == {UA, UASlash, UB, UAFile}
NsUploads == {UploadArgs(D1, <<"x">>)}
NsSaves == {SaveArgs(D1, 0, 1, "t", "A", NoRank)}
NsDeletes == {DeleteArgs(D1, 0)}
NsLabels == {LabelArgs("A", "red")}

NextNs ==
    \E t \in OneWorker :
        \/ \E name \in NsNames : BeginRegister(t, name, "pw")
        \/ OpenUsers(t)
        \/ CloseUsers(t)
        \/ \E name \in NsNames : login_user(t, name, "pw")
        \/ \E h \in ConcHeaders, a \in NsUploads : BeginUpload(t, h, a)
        \/ OpenDocs(t)
        \/ CloseDocs(t)
        \/ \E h \in ConcHeaders : get_doc(t, h, D1)
        \/ \E h \in ConcHeaders, a \in NsSaves : BeginSaveAnnot(t, h, a)
        \/ \E h \in ConcHeaders : get_annots(t, h, D1)
        \/ \E h \in ConcHeaders, a \in NsDeletes : BeginDeleteAnnotation(t, h, a)
        \/ OpenAnns(t)
        \/ CloseAnns(t)
        \/ \E h \in ConcHeaders, a \in NsLabels : BeginSaveLabel(t, h, a)
        \/ \E h \in ConcHeaders, a \in NsLabels : BeginDeleteLabel(t, h, a)
        \/ OpenLabels(t)
        \/ CloseLabels(t)
        \/ \E h \in ConcHeaders : get_label(t, h)
        \/ Release(t)

SpecNs == Init /\ [][NextNs]_vars

(* C9. Namespace partitioning: a document, annotation or label operation   *)
(* done with the token of one registered username leaves the document,     *)
(* annotation and label stores of every other registered username, and the *)
(* credential store, as they were.                                         *)

Writes(t) ==
    /\ threads[t].pc \in {"loaded", "writing"}
    /\ threads[t].op \in {"upload", "save", "delete", "label", "unlabel"}
    /\ threads'[t].pc \in {"writing", "done"}

StoresOf(d, a, l, username) ==
    LET paths == get_user_paths(username)
    IN  <<load_json(d, paths.docs), load_json(a, paths.anns),
          load_json(l, paths.labels)>>

NamespacePartition ==
    [][\A t \in Workers :
          Writes(t) =>
              /\ users' = users
              /\ \A u2 \in DOMAIN Credentials \ {threads[t].user} :
                    StoresOf(docs', anns', labels', u2)
                        = StoresOf(docs, anns, labels, u2)]_vars

----------------------------------------------------------------------------
(* SpecExport: two users who each may hold a document d1, two requests in  *)
(* flight.  It starts where SpecNs gets by register a, register b, login   *)
(* a, login b (ExportStart is a state of SpecNs): both users hold a token. *)
(* The export handlers run on pool threads.                                *)

ExUsers ==
    DictSet(DictSet(EmptyMap, UA, [salt |-> 1, password |-> hash_password("pw", 1)]),
            UB, [salt |-> 2, password |-> hash_password("pw", 2)])
ExSessions == DictSet(DictSet(EmptyMap, 3, UA), 4, UB)

ExportStart ==
    /\ users = save_json(EmptyMap, ResolvePath(USERS_FILE), ExUsers)
    /\ sessions = ExSessions
    /\ uuid = 4
    /\ dirs = {ResolvePath(DATA_DIR)}
    /\ docs = EmptyMap /\ anns = EmptyMap /\ labels = EmptyMap
    /\ exports = EmptyMap

ExHeaders == {Bearer(k) : k \in DOMAIN ExSessions}
ExUploads == {UploadArgs(D1, <<"y", "\n", InvalidByte, " ", "z">>)}
ExSaves == {SaveArgs(D1, 0, 1, "t", "A", NoRank)}

InitExport == ExportStart /\ threads = [t \in ConcWorkers |-> Idle]

NextExport ==
    \E t \in ConcWorkers :
        \/ \E h \in ExHeaders, a \in ExUploads : BeginUpload(t, h, a)
        \/ OpenDocs(t)
        \/ CloseDocs(t)
        \/ \E h \in ExHeaders, a \in ExSaves : BeginSaveAnnot(t, h, a)
        \/ OpenAnns(t)
        \/ CloseAnns(t)
        \/ \E h \in ExHeaders : BeginExportJson(t, h, D1)
        \/ \E h \in ExHeaders : BeginExportWord(t, h, D1)
        \/ OpenExport(t)
        \/ CloseExport(t)
        \/ SendFile(t)
        \/ Release(t)

SpecExport == InitExport /\ [][NextExport]_vars

(* C10. Isolation of reads under identical doc_id: the export of a doc_id  *)
(* returns to a user what the handler read from that user's own stores, or *)
(* at least content of that user's own stores, whatever other users export *)
(* at the same time.                                                       *)

IsolatedStep(t) ==
    (threads[t].pc = "sending" /\ threads'[t].pc = "done")
    => \/ threads'[t].body.content.from = threads[t].data.from
       \/ threads'[t].body.content.content = threads[t].data.content

IsolatedReads == [][\A t \in Workers : IsolatedStep(t)]_vars

----------------------------------------------------------------------------
(* SpecAuth: one user and one worker, every route, with headers of every   *)
(* shape: none, a scheme other than Bearer, a Bearer token never issued,   *)
(* a Bearer token of the registry.                                         *)

TxtExt == <<".", "t", "x", "t">>
TxtName == D1 \o TxtExt
Basic(t) == [scheme |-> "Basic ", token |-> t]
AuthHeaders == {NoHeader, Basic(2), Bearer(1), Bearer(2)}
AuthFiles == <<Payload(TxtName, <<"x">>)>>
AuthSave == SaveArgs(TxtName, 0, 1, "t", "A", NoRank)

InitAuth == InitOn(OneWorker)

NextAuth ==
    \E t \in OneWorker :
        \/ BeginRegister(t, UA, "pw")
        \/ OpenUsers(t)
        \/ CloseUsers(t)
        \/ login_user(t, UA, "pw")
        \/ \E h \in AuthHeaders : BeginUpload(t, h, UploadArgs(TxtName, <<"x">>))
        \/ \E h \in AuthHeaders : BeginUploadZip(t, h, ZipArgs(AuthFiles))
        \/ ResumeUploadZip(t)
        \/ \E h \in AuthHeaders : BeginUploadFolder(t, h, FolderArgs(AuthFiles))
        \/ ResumeUploadFolder(t)
        \/ OpenDocs(t)
        \/ CloseDocs(t)
        \/ \E h \in AuthHeaders : list_docs(t, h)
        \/ \E h \in AuthHeaders : get_doc(t, h, TxtName)
        \/ \E h \in AuthHeaders : BeginSaveAnnot(t, h, AuthSave)
        \/ \E h \in AuthHeaders : get_annots(t, h, TxtName)
        \/ \E h \in AuthHeaders : BeginDeleteAnnotation(t, h, DeleteArgs(TxtName, 0))
        \/ OpenAnns(t)
        \/ CloseAnns(t)
        \/ \E h \in AuthHeaders : BeginSaveLabel(t, h, LabelArgs("A", "red"))
        \/ \E h \in AuthHeaders : BeginDeleteLabel(t, h, LabelArgs("A", "red"))
        \/ OpenLabels(t)
        \/ CloseLabels(t)
        \/ \E h \in AuthHeaders : get_label(t, h)
        \/ \E h \in AuthHeaders : BeginExportJson(t, h, TxtName)
        \/ \E h \in AuthHeaders : BeginExportWord(t, h, TxtName)
        \/ OpenExport(t)
        \/ CloseExport(t)
        \/ SendFile(t)
        \/ Release(t)

SpecAuth == InitAuth /\ [][NextAuth]_vars

\* the header is missing, is not 'Bearer <token>', or its token is not in
\* the session registry
BadHeader(h) ==
    \/ h = NoHeader
    \/ h.scheme # "Bearer "
    \/ h.token \notin DOMAIN sessions

\* the document, annotation, label and export routes
Gated == {"upload", "upload-zip", "upload-folder", "documents", "document",
          "save", "list", "delete", "label", "unlabel", "labels",
          "export-json", "export-word"}

AuthGateStep(t) ==
    (/\ threads[t].pc = "idle" /\ threads'[t].pc # "idle"
     /\ threads'[t].op \in Gated
     /\ BadHeader(threads'[t].auth))
    => /\ threads'[t].pc = "done"
       /\ threads'[t].status = 401
       /\ UNCHANGED <<users, sessions, dirs, docs, anns, labels, exports>>

(* C11. Auth gate: every document, annotation, label and export request    *)
(* that arrives with no Authorization header, with a header that is not    *)
(* 'Bearer <token>', or with a token that is not in the session registry   *)
(* is answered 401 at once and changes no store and no session.            *)
AuthGate == [][\A t \in Workers : AuthGateStep(t)]_vars

\* a save was answered 401 for a registered token sent under another scheme,
\* while annotations are stored
AuthGateWitness ==
    \E t \in Workers :
        /\ threads[t].pc = "done" /\ threads[t].op = "save"
        /\ threads[t].status = 401
        /\ threads[t].auth = Basic(2)
        /\ 2 \in DOMAIN sessions
        /\ anns # EmptyMap

----------------------------------------------------------------------------
(* SpecUsers: POST /register and POST /login on two pool threads, two      *)
(* usernames, and passwords that are empty, one blank, or a word.          *)

UserNames == {UA, UB}
UserPasswords == {"", " ", "pw"}

InitUsers == InitOn(ConcWorkers)

NextUsers ==
    \E t \in ConcWorkers :
        \/ \E name \in UserNames, pw \in UserPasswords : BeginRegister(t, name, pw)
        \/ OpenUsers(t)
        \/ CloseUsers(t)
        \/ \E name \in UserNames, pw \in UserPasswords : login_user(t, name, pw)
        \/ Release(t)

SpecUsers == InitUsers /\ [][NextUsers]_vars

\* worker o answers a request of route op in this step
Answers(o, op) ==
    /\ threads[o].pc = "idle"
    /\ threads'[o].pc = "done" /\ threads'[o].op = op

\* worker t holds the 200 of a register
Registered(t) ==
    /\ threads[t].pc = "done" /\ threads[t].op = "register"
    /\ threads[t].status = 200

RegisterThenLoginStep(t, o) ==
    (/\ Registered(t)
     /\ Answers(o, "login")
     /\ threads'[o].args = threads[t].args)
    => /\ threads'[o].status = 200
       /\ threads'[o].body.token \in DOMAIN sessions'
       /\ sessions'[threads'[o].body.token] = Strip(threads[t].args.username)
       /\ \A k \in DOMAIN sessions :
              k \in DOMAIN sessions' /\ sessions'[k] = sessions[k]

(* C12. Register-then-login: when register has answered 200 for a username *)
(* and a password, a later login with the same username and password is   *)
(* answered 200 with a token the session registry binds to that username,  *)
(* and no session already in the registry is removed or rebound.           *)
RegisterThenLogin ==
    [][\A t \in Workers : \A o \in Workers \ {t} :
           RegisterThenLoginStep(t, o)]_vars

\* the credentials of a login are those of a stored record
Verified(store, a) ==
    /\ Strip(a.username) \in DOMAIN store
    /\ store[Strip(a.username)].password
           = hash_password(a.password, store[Strip(a.username)].salt)

LoginFailureStep(o) ==
    (Answers(o, "login") /\ ~Verified(Credentials, threads'[o].args))
    => threads'[o].status = 401 /\ UNCHANGED sessions

\* a login that fails is answered 401 and leaves the session registry as it was
LoginFailure == [][\A o \in Workers : LoginFailureStep(o)]_vars

(* C13. Login failure creates no session, so that in every reachable state *)
(* each token of the session registry is bound to a username that exists   *)
(* in the credential store.                                                *)
SessionsOfUsers == \A k \in DOMAIN sessions : sessions[k] \in DOMAIN Credentials

\* the username or the password is empty or whitespace-only
Blank(a) == Strip(a.username) = <<>> \/ a.password \in {"", " "}

RegisterRejectionStep(t) ==
    LET a == threads'[t].args
    IN  (/\ threads[t].pc = "idle" /\ threads'[t].pc # "idle"
         /\ threads'[t].op = "register")
        => /\ (Strip(a.username) \in DOMAIN Credentials \/ Blank(a))
                 => /\ threads'[t].pc = "done"
                    /\ threads'[t].status \in {400, 409}
                    /\ UNCHANGED users
           /\ (Strip(a.username) \in DOMAIN Credentials /\ ~Blank(a))
                 => threads'[t].pc = "done" /\ threads'[t].status = 409

(* C14. Register rejection: a register whose username already exists, or   *)
(* whose username or password is empty or whitespace-only, is rejected and *)
(* leaves the credential store unchanged; the duplicate is answered 409.   *)
RegisterRejection == [][\A t \in Workers : RegisterRejectionStep(t)]_vars

\* the credential store after this step
CredentialsNext == load_json(users', ResolvePath(USERS_FILE))

(* C15. User records are immutable and never deleted: a username of the    *)
(* credential store stays in it with the same salt and the same password   *)
(* hash in every later state, under every interleaving of register and     *)
(* login.                                                                  *)
UsersImmutable ==
    [][\A u \in DOMAIN Credentials :
           u \in DOMAIN CredentialsNext /\ CredentialsNext[u] = Credentials[u]]_vars

----------------------------------------------------------------------------
(* SpecTorn: one logged-in user, two workers; a write can fail between the *)
(* open and the end of the dump, and get_annots and export_json_file read  *)
(* on pool threads meanwhile.                                              *)

TornHeader == Bearer(3)
TornSaves == {SaveArgs(D1, sp[1], sp[2], "t", "A", NoRank) :
                 sp \in {<<0, 1>>, <<1, 2>>}}

InitTorn == ExportStart /\ threads = [t \in ConcWorkers |-> Idle]

NextTorn ==
    \E t \in ConcWorkers :
        \/ \E a \in TornSaves : BeginSaveAnnot(t, TornHeader, a)
        \/ BeginDeleteAnnotation(t, TornHeader, DeleteArgs(D1, 0))
        \/ OpenAnns(t)
        \/ CloseAnns(t)
        \/ FailWrite(t)
        \/ get_annots(t, TornHeader, D1)
        \/ BeginExportJson(t, TornHeader, D1)
        \/ OpenExport(t)
        \/ CloseExport(t)
        \/ SendFile(t)
        \/ Release(t)

SpecTorn == InitTorn /\ [][NextTorn]_vars

AnnWrites == {"save", "delete"}

\* worker r reads the annotation list of a document in this step, for
\* GET /annotations or for an export
ReadsList(r) ==
    /\ threads[r].pc = "idle"
    /\ \/ /\ threads'[r].pc = "done" /\ threads'[r].op = "list"
          /\ threads'[r].status = 200
       \/ threads'[r].pc = "loaded" /\ threads'[r].op = "export-json"

ListRead(r) ==
    IF threads'[r].op = "list" THEN threads'[r].body ELSE threads'[r].loaded

AtomicReplaceStep(r, w) ==
    (/\ ReadsList(r)
     /\ threads[w].pc = "writing" /\ threads[w].op \in AnnWrites
     /\ threads[w].path = get_user_paths(get_current_user(threads'[r].auth)).anns)
    => \/ ListRead(r) = GetList(threads[w].before, threads'[r].args.doc_id)
       \/ ListRead(r) = GetList(threads[w].data, threads'[r].args.doc_id)

(* C16. Atomic replace for readers: a list or export request that reads    *)
(* while a save or delete of the same user is persisting obtains either    *)
(* the complete list as it was before that write or the complete list      *)
(* after it, never an empty, truncated or partial one.                     *)
AtomicReplace ==
    [][\A r \in Workers : \A w \in Workers \ {r} : AtomicReplaceStep(r, w)]_vars

InterruptedWriteStep(t) ==
    (/\ threads[t].pc = "writing" /\ threads[t].op \in AnnWrites
     /\ threads'[t].pc = "done" /\ threads'[t].status = 500)
    => load_json(anns', threads[t].path) = threads[t].before

(* C17. Crash consistency: when a write is interrupted after the store     *)
(* file was opened for writing and before the content is fully written,    *)
(* a load of the store returns the complete mapping that was persisted     *)
(* before the request.                                                     *)
InterruptedWrite == [][\A t \in Workers : InterruptedWriteStep(t)]_vars

----------------------------------------------------------------------------
(* SpecLenient: one logged-in user, two workers; saves on the event loop,  *)
(* one at a time, whose write can fail between the open and the end of the *)
(* dump, and get_annots on pool threads.                                   *)

InitLenient == ExportStart /\ threads = [t \in ConcWorkers |-> Idle]

NextLenient ==
    \E t \in ConcWorkers :
        \/ \E a \in TornSaves : BeginSaveAnnot(t, TornHeader, a)
        \/ OpenAnns(t)
        \/ CloseAnns(t)
        \/ FailWrite(t)
        \/ get_annots(t, TornHeader, D1)
        \/ Release(t)

SpecLenient == InitLenient /\ [][NextLenient]_vars

\* the file is missing, or what it holds does not parse
Unreadable(store, path) == path \notin DOMAIN store \/ ~store[path].whole

LenientStep(t) ==
    LET r == threads'[t]
        path == get_user_paths(get_current_user(r.auth)).anns
    IN  (/\ threads[t].pc = "idle" /\ r.pc # "idle"
         /\ r.op \in {"list", "save"}
         /\ ~BadHeader(r.auth)
         /\ Unreadable(anns, path))
        => IF r.op = "list"
           THEN r.pc = "done" /\ r.status = 200 /\ r.body = <<>>
           ELSE /\ r.pc = "loaded" /\ r.loaded = EmptyMap
                /\ DOMAIN r.data = {r.args.doc_id}
                /\ r.data[r.args.doc_id] = <<Cand(r.args)>>

PersistStep(t) ==
    Persists(t, "save") => anns'[threads[t].path] = Whole(threads[t].data)

(* C18. Lenient load: a load of a store whose file is missing, or whose    *)
(* content does not parse, returns the empty mapping without an error: a   *)
(* list on it is answered 200 with the empty list, and the next save       *)
(* persists a mapping that holds only the entry of that save.              *)
LenientLoad == [][\A t \in Workers : LenientStep(t) /\ PersistStep(t)]_vars

\* annotations.json was left unparseable by a write that held a list; a
\* list was answered with the empty list and a save has loaded the empty
\* mapping from it
LenientLoadWitness ==
    \E t \in Workers : \E o \in Workers \ {t} :
        LET path == get_user_paths(UA).anns IN
        /\ path \in DOMAIN anns
        /\ ~anns[path].whole
        /\ anns[path].content # EmptyMap
        /\ threads[t].pc = "done" /\ threads[t].op = "list"
        /\ threads[t].status = 200 /\ threads[t].body = <<>>
        /\ threads[o].pc = "loaded" /\ threads[o].op = "save"
        /\ threads[o].loaded = EmptyMap

----------------------------------------------------------------------------
(* SpecFrame: one logged-in user, two workers, annotation writes on two    *)
(* documents: save_annot on the event loop, delete_annotation on pool      *)
(* threads.                                                                *)

FrameSaves == {SaveArgs(d, 0, 1, "t", "A", NoRank) : d \in DocIds}
FrameDeletes == {DeleteArgs(d, 0) : d \in DocIds}

InitFrame == ExportStart /\ threads = [t \in ConcWorkers |-> Idle]

NextFrame ==
    \E t \in ConcWorkers :
        \/ \E a \in FrameSaves : BeginSaveAnnot(t, Bearer(3), a)
        \/ \E a \in FrameDeletes : BeginDeleteAnnotation(t, Bearer(3), a)
        \/ OpenAnns(t)
        \/ CloseAnns(t)
        \/ \E d \in DocIds : get_annots(t, Bearer(3), d)
        \/ Release(t)

SpecFrame == InitFrame /\ [][NextFrame]_vars

FrameStep(t) ==
    (Persists(t, "save") \/ Persists(t, "delete"))
    => \A d \in DocIds \ {threads[t].args.doc_id} :
           Stored(anns', threads[t].path, d) = GetList(threads[t].before, d)

(* C19. Per-document frame: a save or a delete on doc_id d of a user       *)
(* leaves the stored annotation list of every other doc_id of that user    *)
(* as it was when the write opened the file, in every interleaving of the  *)
(* requests.                                                               *)
DocumentFrame == [][\A t \in Workers : FrameStep(t)]_vars

----------------------------------------------------------------------------
(* SpecUploads: one logged-in user and two requests at a time on the event *)
(* loop: a single upload, an archive with a .txt and a .png entry, a       *)
(* folder of two files.                                                    *)

PngName == <<"p", ".", "p", "n", "g">>
UploadOne == UploadArgs(TxtName, <<"x">>)
UploadArchive == ZipArgs(<<Payload(D2 \o TxtExt, <<"x">>),
                           Payload(PngName, <<"x">>)>>)
UploadBatch == FolderArgs(<<Payload(TxtName, <<"y">>),
                            Payload(<<"d", "3">> \o TxtExt, <<"x">>)>>)

InitUploads == ExportStart /\ threads = [t \in ConcWorkers |-> Idle]

NextUploads ==
    \E t \in ConcWorkers :
        \/ BeginUpload(t, Bearer(3), UploadOne)
        \/ BeginUploadZip(t, Bearer(3), UploadArchive)
        \/ ResumeUploadZip(t)
        \/ BeginUploadFolder(t, Bearer(3), UploadBatch)
        \/ ResumeUploadFolder(t)
        \/ OpenDocs(t)
        \/ CloseDocs(t)
        \/ list_docs(t, Bearer(3))
        \/ Release(t)

SpecUploads == InitUploads /\ [][NextUploads]_vars

UploadOps == {"upload", "upload-zip", "upload-folder"}

\* the doc_ids an upload request puts
Puts(r) ==
    IF r.op = "upload" THEN {r.args.doc_id}
    ELSE IF r.op = "upload-zip"
    THEN {r.args.files[i].name : i \in {k \in 1..Len(r.args.files) :
                                          EndsWithTxt(r.args.files[k].name)}}
    ELSE {r.args.files[i].name : i \in 1..Len(r.args.files)}

\* an upload is between its load and its response
InFlight(o) ==
    /\ threads[o].pc \in {"awaiting", "loaded", "writing"}
    /\ threads[o].op \in UploadOps

(* C20. No lost uploads: when no upload is in flight, every doc_id put by  *)
(* an upload request that was answered 200 is a key of that user's         *)
(* document store.                                                         *)
NoLostUploads ==
    \A t \in Workers :
        (/\ threads[t].pc = "done" /\ threads[t].op \in UploadOps
         /\ threads[t].status = 200
         /\ \A o \in Workers : ~InFlight(o))
        => Puts(threads[t])
              \subseteq DOMAIN load_json(docs, get_user_paths(
                                           get_current_user(threads[t].auth)).docs)

====
